---- MODULE Spec2Model ----
(***************************************************************************)
(* Model of companyDescriptionEmbeddingsSearch.py: a Streamlit page that   *)
(* embeds a company description (OpenAI), runs a MongoDB $vectorSearch     *)
(* and keeps the outcome in st.session_state.search_results_df.            *)
(*                                                                         *)
(* Python values are modelled as follows: a str is a sequence of           *)
(* one-character strings, a list is a sequence, a dict is a function over  *)
(* its keys, and a value that may be None is None or Some(v).              *)
(***************************************************************************)
EXTENDS Integers, Sequences, FiniteSets, TLC

\* ------------------------------------------------------------------------
\* Bounds of the model
\* ------------------------------------------------------------------------
\* longest list of records the database returns
MaxRecords == 2
\* cap on the provider calls recorded for one description text
MaxCalls == 2
\* longest industry text enumerated by ParseSpec
MaxIndustryLen == 4

\* ------------------------------------------------------------------------
\* Program constants (number_input arguments)
\* ------------------------------------------------------------------------
LimitMin == 1
LimitMax == 10000
LimitDefault == 1000
CandidatesMax == 20000
CandidatesDefault == 10000

\* ------------------------------------------------------------------------
\* Python values
\* ------------------------------------------------------------------------
None == [some |-> FALSE]
Some(v) == [some |-> TRUE, val |-> v]

\* truth value of a str or a list: non-empty
NonEmpty(s) == Len(s) > 0

\* truth value of an Optional list: neither None nor []
Truthy(x) == x.some /\ NonEmpty(x.val)

\* str.isspace() of one character
IsSpace(c) == c \in {" ", "\n", "\t"}

\* text.replace("\n", " ")
ReplaceNewlines(text) == [i \in 1..Len(text) |-> IF text[i] = "\n" THEN " " ELSE text[i]]

RECURSIVE LStrip(_)
LStrip(s) == IF s /= <<>> /\ IsSpace(Head(s)) THEN LStrip(Tail(s)) ELSE s

RECURSIVE RStrip(_)
RStrip(s) == IF s /= <<>> /\ IsSpace(s[Len(s)]) THEN RStrip(SubSeq(s, 1, Len(s) - 1)) ELSE s

\* str.strip()
Strip(s) == RStrip(LStrip(s))

\* str.split(sep): the pieces between the separators, empty pieces kept
RECURSIVE Split(_, _)
Split(s, sep) ==
    IF \E i \in 1..Len(s) : s[i] = sep
    THEN LET i == CHOOSE k \in 1..Len(s) : s[k] = sep /\ \A j \in 1..(k - 1) : s[j] /= sep
         IN  <<SubSeq(s, 1, i - 1)>> \o Split(SubSeq(s, i + 1, Len(s)), sep)
    ELSE <<s>>

\* [f(x) for x in xs]
RECURSIVE MapStrip(_)
MapStrip(xs) == IF xs = <<>> THEN <<>> ELSE <<Strip(Head(xs))>> \o MapStrip(Tail(xs))

\* ------------------------------------------------------------------------
\* Inputs
\* ------------------------------------------------------------------------
\* description texts typed into the text area
Descriptions == { <<>>, <<" ">>, <<"a", "\n", "b">> }

\* industry texts typed into the text input
IndustryInputs == { <<>>, <<",", " ", ",">>, <<" ", "a", " ", ",">> }

\* values typed into the two number inputs
LimitChoices == {LimitDefault, LimitMax}
CandidatesChoices == {LimitDefault, CandidatesDefault, CandidatesMax}

\* records of the collection
Companies == {"c1", "c2"}

\* ranked record lists the database can return for a limit
Rankings(limit) ==
    LET n == IF limit < MaxRecords THEN limit ELSE MaxRecords
    IN  UNION { { r \in [1..k -> Companies] : \A i, j \in 1..k : r[i] = r[j] => i = j } : k \in 0..n }

\* what collection.aggregate does: returns a ranked list or raises
DbOutcomes(limit) == { [ok |-> FALSE, rows |-> <<>>] } \cup { [ok |-> TRUE, rows |-> r] : r \in Rankings(limit) }

\* the vector the provider returns for an input text
Embedding(input) == <<"embedding", input>>

VARIABLES
    search_results_df,   \* st.session_state.search_results_df: None or Some(rows)
    embedding_cache,     \* st.cache_data store of get_embedding, keyed by text
    limit_input,         \* value of the result-limit widget at the last run,
                         \* the min_value the candidates widget is rendered with
    form_limit,          \* result limit pending in the form
    form_candidates,     \* candidates pending in the form
    industry_input,      \* industry text of the form
    provider_log,        \* per description text: outcomes of the provider calls
    last_submit,         \* what the most recent submission did
    screen               \* what the most recent script run rendered

vars == <<search_results_df, embedding_cache, limit_input,
          form_limit, form_candidates, industry_input, provider_log,
          last_submit, screen>>

\* ------------------------------------------------------------------------
\* Core functions
\* ------------------------------------------------------------------------
\* body of get_embedding: runs on a cache miss, calls the provider once
embedding_body(text, provider_ok) ==
    LET input == ReplaceNewlines(text)
    IN  IF provider_ok
        THEN [value |-> Some(Embedding(input)), request |-> Some(input), errors |-> {}]
        ELSE [value |-> None, request |-> Some(input), errors |-> {"openai_error"}]

\* an st.cache_data entry for a text never passed to get_embedding
NotCached == [cached |-> FALSE, value |-> None, errors |-> {}]

\* faulty variant: the lookup never finds an entry
CacheLookup_miss(cache, text) == NotCached

\* st.cache_data lookup: the stored entry for the argument text
CacheLookup(cache, text) == cache[text]

\* st.cache_data store: the value the body returned, whatever it is
CacheStore(cache, text, r) ==
    [cache EXCEPT ![text] = [cached |-> TRUE, value |-> r.value, errors |-> r.errors]]

\* get_embedding under @st.cache_data: a hit replays the stored value and
\* the stored st.error; a miss runs the body and stores what it returned
get_embedding(cache, text, provider_ok) ==
    LET entry == CacheLookup(cache, text)
    IN  IF entry.cached
        THEN [value |-> entry.value, called |-> FALSE, request |-> None,
              errors |-> entry.errors, cache |-> cache]
        ELSE LET r == embedding_body(text, provider_ok)
             IN  [value |-> r.value, called |-> TRUE, request |-> r.request,
                  errors |-> r.errors, cache |-> CacheStore(cache, text, r)]

\* faulty variant: the industry clause replaces the filter instead of joining it
SearchFilter_replaced(industries_list) ==
    IF NonEmpty(industries_list)
    THEN ("industry" :> ("$in" :> industries_list))
    ELSE ("company_headquarters_country" :> "USA")

\* the "filter" dict of the $vectorSearch stage
SearchFilter(industries_list) ==
    ("company_headquarters_country" :> "USA")
    @@ (IF NonEmpty(industries_list)
        THEN ("industry" :> ("$in" :> industries_list))
        ELSE <<>>)

\* vector_search: no query for a None vector; otherwise one aggregate call,
\* whose failure is reported and turned into None
vector_search(query_vector, num_candidates, limit, industries_list, db) ==
    IF ~query_vector.some
    THEN [result |-> None, query |-> None, errors |-> {}]
    ELSE LET search_stage == [queryVector   |-> query_vector.val,
                              numCandidates |-> num_candidates,
                              limit         |-> limit,
                              filter        |-> SearchFilter(industries_list)]
         IN  IF db.ok
             THEN [result |-> Some(db.rows), query |-> Some(search_stage), errors |-> {}]
             ELSE [result |-> None, query |-> Some(search_stage), errors |-> {"mongo_error"}]

\* faulty variant: the entries are tested stripped but kept as typed
ParseIndustries_untrimmed(text) ==
    IF NonEmpty(text)
    THEN SelectSeq(Split(text, ","), LAMBDA ind : NonEmpty(Strip(ind)))
    ELSE <<>>

\* industries_list of the search logic
ParseIndustries(text) ==
    IF NonEmpty(text)
    THEN MapStrip(SelectSeq(Split(text, ","), LAMBDA ind : NonEmpty(Strip(ind))))
    ELSE <<>>

\* `if not description_input`
DescriptionMissing(description) == ~NonEmpty(description)

\* faulty variant: the test of the vector is dropped
VectorPresent_always(query_vector) == TRUE

\* `if query_vector`
VectorPresent(query_vector) == Truthy(query_vector)

\* faulty variant: the old results are not cleared
ClearResults_kept(df) == df

\* the clearing assignment at the start of the search logic
ClearResults(df) == None

\* faulty variant: an empty outcome stores nothing
StoreResults_nothing(search_results) ==
    IF Truthy(search_results) THEN Some(search_results.val) ELSE None

\* the if/else that stores the outcome of vector_search
StoreResults(search_results) ==
    IF Truthy(search_results) THEN Some(search_results.val) ELSE Some(<<>>)

\* results display: nothing for None, the notice for an empty frame, else the table
Display(df) ==
    IF ~df.some THEN [notice |-> "nothing", table |-> <<>>]
    ELSE IF Len(df.val) = 0 THEN [notice |-> "no_results", table |-> <<>>]
    ELSE [notice |-> "table", table |-> df.val]

\* the result-limit number_input: the value the form sent
limit_widget(sent) == sent

\* faulty variant: the widget keeps the value the form sent whatever its min_value
candidates_widget_sticky(min_value, rendered_min, sent) == sent

\* the candidates number_input. Its identity includes min_value, so when the
\* result limit differs from the one it was last rendered with it is a new
\* widget and returns its default; otherwise it returns the value the form sent
candidates_widget(min_value, rendered_min, sent) ==
    IF min_value = rendered_min THEN sent ELSE CandidatesDefault

\* ------------------------------------------------------------------------
\* State machine
\* ------------------------------------------------------------------------
NoSubmit ==
    [done |-> FALSE, description |-> <<>>, industry |-> <<>>, prior_log |-> <<>>,
     prior_notice |-> "nothing",
     sent_candidates |-> CandidatesDefault, warned |-> FALSE, embed_called |-> FALSE, embed_failed |-> FALSE,
     request |-> None, query |-> None, db_failed |-> FALSE, db_rows |-> None]

\* first run of the script: session state initialised, widgets at their defaults
Init ==
    /\ search_results_df = None
    /\ embedding_cache = [t \in Descriptions |-> NotCached]
    /\ limit_input = LimitDefault
    /\ form_limit = LimitDefault
    /\ form_candidates = CandidatesDefault
    /\ industry_input = <<>>
    /\ provider_log = [t \in Descriptions |-> <<>>]
    /\ last_submit = NoSubmit
    /\ screen = [messages |-> {}, notice |-> "nothing", table |-> <<>>]

\* the user types a result limit into the form (no rerun inside a form)
EditLimit(v) ==
    /\ LimitMin <= v /\ v <= LimitMax
    /\ v /= form_limit
    /\ form_limit' = v
    /\ UNCHANGED <<search_results_df, embedding_cache, limit_input,
                   form_candidates, industry_input, provider_log, last_submit, screen>>

\* the user types a candidate pool size; the rendered widget accepts
\* values from its min_value (the limit of the last run) to its max_value
EditCandidates(v) ==
    /\ limit_input <= v /\ v <= CandidatesMax
    /\ v /= form_candidates
    /\ form_candidates' = v
    /\ UNCHANGED <<search_results_df, embedding_cache, limit_input,
                   form_limit, industry_input, provider_log, last_submit, screen>>

\* the search logic (the submit_button branch) as a function of the session
\* state, the widget values and the answers of the provider and the database
SearchLogic(df, cache, description, industry, num_candidates, limit, provider_ok, db) ==
    LET cleared         == ClearResults(df)
        missing         == DescriptionMissing(description)
        e               == get_embedding(cache, description, provider_ok)
        searching       == ~missing /\ VectorPresent(e.value)
        industries_list == ParseIndustries(industry)
        s               == vector_search(e.value, num_candidates, limit, industries_list, db)
    IN  [df       |-> IF searching THEN StoreResults(s.result) ELSE cleared,
         cache    |-> IF missing THEN cache ELSE e.cache,
         messages |-> IF missing THEN {"warning"}
                      ELSE e.errors \cup (IF searching THEN s.errors ELSE {}),
         called   |-> ~missing /\ e.called,
         request  |-> IF missing THEN None ELSE e.request,
         query    |-> IF searching THEN s.query ELSE None]

\* one run of the script with submit_button true
Submit(description, industry, provider_ok, db) ==
    \E new_limit \in { limit_widget(form_limit) } :
    \E new_candidates \in { candidates_widget(new_limit, limit_input, form_candidates) } :
    \E run \in { SearchLogic(search_results_df, embedding_cache, description, industry,
                             new_candidates, new_limit, provider_ok, db) } :
    \E shown \in { Display(run.df) } :
        /\ Len(provider_log[description]) < MaxCalls
        /\ search_results_df' = run.df
        /\ embedding_cache' = run.cache
        /\ limit_input' = new_limit
        /\ form_limit' = new_limit
        /\ form_candidates' = new_candidates
        /\ industry_input' = industry
        /\ provider_log' = IF run.called
                           THEN [provider_log EXCEPT ![description] =
                                    Append(@, IF provider_ok THEN "ok" ELSE "fail")]
                           ELSE provider_log
        /\ last_submit' =
              [done            |-> TRUE,
               description     |-> description,
               industry        |-> industry,
               prior_log       |-> provider_log[description],
               prior_notice    |-> Display(search_results_df).notice,
               sent_candidates |-> form_candidates,
               warned          |-> "warning" \in run.messages,
               embed_called    |-> run.called,
               embed_failed    |-> run.called /\ ~provider_ok,
               request         |-> run.request,
               query           |-> run.query,
               db_failed       |-> run.query.some /\ ~db.ok,
               db_rows         |-> IF run.query.some /\ db.ok THEN Some(db.rows) ELSE None]
        /\ screen' = [messages |-> run.messages,
                      notice   |-> shown.notice,
                      table    |-> shown.table]

\* one run of the script with submit_button false (a plain re-render)
Rerun ==
    /\ screen' = [messages |-> {},
                  notice   |-> Display(search_results_df).notice,
                  table    |-> Display(search_results_df).table]
    /\ UNCHANGED <<search_results_df, embedding_cache, limit_input,
                   form_limit, form_candidates, industry_input, provider_log, last_submit>>

\* the answers of the provider and of the database are drawn only when the
\* run reaches the call; a run that does not call has nothing to draw
ProviderOutcomes(description) ==
    IF ~DescriptionMissing(description)
       /\ get_embedding(embedding_cache, description, TRUE).called
    THEN BOOLEAN ELSE {TRUE}

QueryOutcomes(description, provider_ok) ==
    LET e == get_embedding(embedding_cache, description, provider_ok)
    IN  IF ~DescriptionMissing(description) /\ VectorPresent(e.value) /\ e.value.some
        THEN DbOutcomes(limit_widget(form_limit))
        ELSE { [ok |-> TRUE, rows |-> <<>>] }

SubmitForm ==
    \E description \in Descriptions, industry \in IndustryInputs :
        \E provider_ok \in ProviderOutcomes(description) :
            \E db \in QueryOutcomes(description, provider_ok) :
                Submit(description, industry, provider_ok, db)

Next ==
    \/ \E v \in LimitChoices : EditLimit(v)
    \/ \E v \in CandidatesChoices : EditCandidates(v)
    \/ SubmitForm
    \/ Rerun

Spec == Init /\ [][Next]_vars

\* ------------------------------------------------------------------------
\* The industry text, exhaustively: every text up to MaxIndustryLen over
\* IndustryChars is submitted with a description that embeds
\* ------------------------------------------------------------------------
IndustryChars == {"a", "b", " ", ","}

IndustryTexts == UNION { [1..n -> IndustryChars] : n \in 0..MaxIndustryLen }

ParseInit ==
    /\ search_results_df = None
    /\ embedding_cache = [t \in Descriptions |-> NotCached]
    /\ limit_input = LimitDefault
    /\ form_limit = LimitDefault
    /\ form_candidates = CandidatesDefault
    /\ industry_input \in IndustryTexts
    /\ provider_log = [t \in Descriptions |-> <<>>]
    /\ last_submit = NoSubmit
    /\ screen = [messages |-> {}, notice |-> "nothing", table |-> <<>>]

SubmitIndustry ==
    \E db \in { o \in DbOutcomes(limit_widget(form_limit)) : Len(o.rows) <= 1 } :
        Submit(<<"a", "\n", "b">>, industry_input, TRUE, db)

ParseNext == SubmitIndustry

ParseSpec == ParseInit /\ [][ParseNext]_vars

\* ------------------------------------------------------------------------
\* Properties
\* ------------------------------------------------------------------------
Range(f) == { f[i] : i \in DOMAIN f }

\* empty or made of whitespace only
Blank(text) == \A i \in 1..Len(text) : IsSpace(text[i])

\* the records the most recent submission's search returned (none if it
\* made no search or the search failed)
LastReturned == IF last_submit.db_rows.some THEN last_submit.db_rows.val ELSE <<>>

\* C1: a submission whose embedding succeeds and whose database query raises
\* leaves the result state Unset, and the "no results" notice is not shown.
C1_SearchFailureLeavesUnset ==
    (last_submit.done /\ last_submit.db_failed)
        => (search_results_df = None /\ screen.notice /= "no_results")

\* C2: a submission with an empty or whitespace-only description warns the
\* user, calls neither the provider nor the database, and leaves the result
\* state Unset.
C2_BlankDescriptionRejected ==
    (last_submit.done /\ Blank(last_submit.description))
        => /\ last_submit.warned
           /\ ~last_submit.embed_called
           /\ ~last_submit.query.some
           /\ search_results_df = None

\* C3: a submission whose provider call fails sends no query and leaves the
\* result state Unset, whatever the state was before.
C3_EmbeddingFailureLeavesUnset ==
    last_submit.embed_failed
        => (~last_submit.query.some /\ search_results_df = None)

C3_Witness ==
    /\ last_submit.embed_failed
    /\ last_submit.prior_notice = "table"
    /\ "openai_error" \in screen.messages

\* C4: what is displayed is the result of the most recent submission: the
\* table shows exactly the records that submission's search returned, and
\* nothing of an earlier submission survives a later one, failed or not.
C4_NoStaleResults ==
    /\ screen.table = LastReturned
    /\ search_results_df.some => search_results_df.val = LastReturned
    /\ screen.notice = "table" => (last_submit.done /\ last_submit.db_rows.some)

C4_Witness ==
    /\ last_submit.done
    /\ last_submit.prior_notice = "table"
    /\ last_submit.warned
    /\ screen.messages = {}
    /\ screen.notice = "nothing"

\* C5: a successful search with zero records gives Empty, shown as the "no
\* results" notice; a successful search with records gives Populated with
\* exactly the returned records in the returned order.
C5_EmptyAndPopulated ==
    last_submit.db_rows.some
        => IF Len(last_submit.db_rows.val) = 0
           THEN /\ search_results_df = Some(<<>>)
                /\ screen.notice = "no_results"
           ELSE /\ search_results_df = Some(last_submit.db_rows.val)
                /\ screen.notice = "table"
                /\ screen.table = last_submit.db_rows.val

C5_Witness ==
    /\ last_submit.db_rows.some
    /\ last_submit.prior_notice = "no_results"
    /\ Len(search_results_df.val) = 2
    /\ screen.notice = "table"

\* C6: once the embedding of a text has succeeded, a later submission of
\* the same text calls the provider no more: a success is the last call
\* recorded for its text.
C6_CacheServesRepeats ==
    /\ (last_submit.done /\ "ok" \in Range(last_submit.prior_log))
           => ~last_submit.embed_called
    /\ \A t \in Descriptions : \A i \in 1..Len(provider_log[t]) :
           provider_log[t][i] = "ok" => i = Len(provider_log[t])

C6_Witness ==
    /\ last_submit.done
    /\ "ok" \in Range(last_submit.prior_log)
    /\ ~last_submit.embed_called
    /\ last_submit.query.some

\* C7: every query sent to the database carries the equality filter
\* company_headquarters_country = "USA".
C7_CountryFilterAlways ==
    last_submit.query.some
        => /\ "company_headquarters_country" \in DOMAIN last_submit.query.val.filter
           /\ last_submit.query.val.filter["company_headquarters_country"] = "USA"

C7_Witness ==
    /\ last_submit.query.some
    /\ "industry" \in DOMAIN last_submit.query.val.filter
    /\ last_submit.query.val.limit = LimitMax
    /\ last_submit.query.val.numCandidates = CandidatesMax

\* the entries of a comma-separated text, by position: the stretches
\* between neighbouring separators (or the ends) holding a non-space
EntryBounds(text) == {0, Len(text) + 1} \cup { i \in 1..Len(text) : text[i] = "," }

Entries(text) ==
    { e \in EntryBounds(text) \X EntryBounds(text) :
        /\ e[1] < e[2]
        /\ \A b \in EntryBounds(text) : ~(e[1] < b /\ b < e[2])
        /\ \E i \in (e[1] + 1)..(e[2] - 1) : ~IsSpace(text[i]) }

TrimmedEntry(text, e) ==
    LET inside == { i \in (e[1] + 1)..(e[2] - 1) : ~IsSpace(text[i]) }
        first  == CHOOSE i \in inside : \A j \in inside : i <= j
        last   == CHOOSE i \in inside : \A j \in inside : j <= i
    IN  [k \in 1..(last - first + 1) |-> text[first + k - 1]]

ExpectedIndustries(text) ==
    LET es == Entries(text)
    IN  [k \in 1..Cardinality(es) |->
            TrimmedEntry(text, CHOOSE e \in es : Cardinality({ x \in es : x[1] < e[1] }) = k - 1)]

\* C8: the industry filter of a query is exactly the comma-separated
\* entries of the industry text, trimmed, empty entries dropped, in order;
\* when there is no such entry the query has no industry filter at all.
C8_IndustryFilter ==
    last_submit.query.some
        => LET expected == ExpectedIndustries(last_submit.industry)
               filter   == last_submit.query.val.filter
           IN  IF Len(expected) = 0
               THEN "industry" \notin DOMAIN filter
               ELSE /\ "industry" \in DOMAIN filter
                    /\ DOMAIN filter["industry"] = {"$in"}
                    /\ filter["industry"]["$in"] = expected

C8_Witness ==
    /\ last_submit.query.some
    /\ last_submit.industry = <<"a", ",", " ", "b">>
    /\ last_submit.query.val.filter["industry"]["$in"] = << <<"a">>, <<"b">> >>

\* C9: every query sent satisfies numCandidates >= limit >= 1.
C9_CandidatesAtLeastLimit ==
    last_submit.query.some
        => /\ last_submit.query.val.numCandidates >= last_submit.query.val.limit
           /\ last_submit.query.val.limit >= 1

C9_Witness ==
    /\ last_submit.query.some
    /\ last_submit.sent_candidates < last_submit.query.val.limit
    /\ last_submit.query.val.limit = LimitMax

\* C10: a failed provider call is not memoized: a later submission of the
\* same text, whose earlier calls all failed, calls the provider again.
C10_FailureNotMemoized ==
    (/\ last_submit.done
     /\ ~DescriptionMissing(last_submit.description)
     /\ last_submit.prior_log /= <<>>
     /\ "ok" \notin Range(last_submit.prior_log))
        => last_submit.embed_called

====
